---------------------------- MODULE Spec2Model ----------------------------
(***************************************************************************)
(* Model of the run orchestration of the MSIanalyzer web app (src/app.py): *)
(* the Streamlit session state (results, tmpdir), the temporary            *)
(* workspaces on disk, the primary run, the pileup run and the reset.      *)
(*                                                                         *)
(* Python strings (file names, paths, marker ids, the mapping text) are    *)
(* sequences of one-character strings, so that basename, endswith, split,  *)
(* strip, lower and the substring test are computed as the code computes   *)
(* them.  Primer sequences and captured output are opaque TLA+ strings:    *)
(* the code never looks inside them.                                       *)
(*                                                                         *)
(* Python's None is the empty sequence; a present dict/value v that can be *)
(* None is the one-element sequence <<v>>.  tmpdir is a path or None: a    *)
(* path returned by mkdtemp is never empty, so `not tmpdir` is             *)
(* tmpdir = None.                                                          *)
(*                                                                         *)
(* The disk changes only through the program and the analyzer it starts:   *)
(* the program never deletes (the rmtree of clear_results is commented     *)
(* out), the analyzer adds files to its working directory, and cleanup of  *)
(* the temp directory by the operating system is outside the model.        *)
(***************************************************************************)
EXTENDS Integers, Sequences, FiniteSets, TLC

(***************************************************************************)
(* Bounds of the model.                                                    *)
(***************************************************************************)
\* number of primary runs (mkdtemp calls) explored in one session
MaxRuns == 2

(***************************************************************************)
(* String literals of the source.                                          *)
(***************************************************************************)
BAT25 == <<"B", "A", "T", "2", "5">>
BAT26 == <<"B", "A", "T", "2", "6">>
D2S123 == <<"D", "2", "S", "1", "2", "3">>
D5S346 == <<"D", "5", "S", "3", "4", "6">>
D17S250 == <<"D", "1", "7", "S", "2", "5", "0">>

EXT_FASTQ_GZ == <<".", "f", "a", "s", "t", "q", ".", "g", "z">>
EXT_FQ_GZ == <<".", "f", "q", ".", "g", "z">>
EXT_FASTQ == <<".", "f", "a", "s", "t", "q">>
EXT_FQ == <<".", "f", "q">>
\* the tuple of line 57, in its order
FASTQ_EXTS == <<EXT_FASTQ_GZ, EXT_FQ_GZ, EXT_FASTQ, EXT_FQ>>

EXT_FA == <<".", "f", "a">>
EXT_FASTA == <<".", "f", "a", "s", "t", "a">>

\* tempfile.mkdtemp(prefix="msianalyzer_") in the system temp directory
TMP_PREFIX == <<"/", "t", "m", "p", "/", "m", "s", "i", "a", "n", "a", "l", "y", "z", "e", "r", "_">>
FASTQ_SUBDIR == <<"f", "a", "s", "t", "q">>
MANIFEST_NAME == <<"m", "a", "n", "i", "f", "e", "s", "t", "_", "r", "u", "n", "t", "i", "m", "e", ".", "j", "s", "o", "n">>
\* Path(__file__).resolve().parent / "hg38"
EXAMPLES_HG38_DIR == <<"/", "a", "p", "p", "/", "h", "g", "3", "8">>

\* the words of the analyzer's command line
MSIANALYZER == <<"m", "s", "i", "a", "n", "a", "l", "y", "z", "e", "r">>
RUN_MARKER == <<"r", "u", "n", "-", "m", "a", "r", "k", "e", "r">>
PILEUP == <<"p", "i", "l", "e", "u", "p">>
OPT_RUN_TESTS == <<"-", "-", "r", "u", "n", "-", "t", "e", "s", "t", "s">>
OPT_SKIP_VARIANT_SUMMARY == <<"-", "-", "s", "k", "i", "p", "-", "v", "a", "r", "i", "a", "n", "t", "-", "s", "u", "m", "m", "a", "r", "y">>
OPT_THREADS == <<"-", "-", "t", "h", "r", "e", "a", "d", "s">>

None == << >>
Some(v) == <<v>>

(***************************************************************************)
(* The Marker Catalog.                                                     *)
(***************************************************************************)
MARKERS ==
    (BAT25 :> [seq1 |-> "TCGCCTCCAAGAATGTAA", seq2 |-> "ACTATGGCTCTAAAATGCTCTGT", motif |-> "T"])
    @@ (BAT26 :> [seq1 |-> "TGACTACTTTTGACTTCAGCC", seq2 |-> "AACCATTCAACATTTTTAACC", motif |-> "A"])
    @@ (D2S123 :> [seq1 |-> "AAACAGGATGCCTGCCTTTA", seq2 |-> "GGACTTTCCACCTATGGGAC", motif |-> "AC"])
    @@ (D5S346 :> [seq1 |-> "ACTCACTCTAGTGATAAATCGGG", seq2 |-> "AGCAGATAAGACAGTATTACTAGTT", motif |-> "CA"])
    @@ (D17S250 :> [seq1 |-> "GGAAGAATCAAATAGACAAT", seq2 |-> "GCTGGCCATATATATATTTAAACC", motif |-> "AC"])

(***************************************************************************)
(* Python string operations, on sequences of characters.                   *)
(***************************************************************************)
UpperChars == <<"A", "B", "C", "D", "E", "F", "G", "H", "I", "J", "K", "L", "M", "N", "O", "P", "Q", "R", "S", "T", "U", "V", "W", "X", "Y", "Z">>
LowerChars == <<"a", "b", "c", "d", "e", "f", "g", "h", "i", "j", "k", "l", "m", "n", "o", "p", "q", "r", "s", "t", "u", "v", "w", "x", "y", "z">>

\* the lower-case letter of each upper-case letter
LowerMap ==
    [c \in {UpperChars[i] : i \in DOMAIN UpperChars} |->
        LowerChars[CHOOSE i \in DOMAIN UpperChars : UpperChars[i] = c]]

LowerChar(c) == IF c \in DOMAIN LowerMap THEN LowerMap[c] ELSE c

\* str.lower()
Lower(s) == [i \in DOMAIN s |-> LowerChar(s[i])]

\* str.startswith(p)
StartsWith(s, p) == Len(p) <= Len(s) /\ SubSeq(s, 1, Len(p)) = p

\* str.endswith(e)
EndsWith(s, e) == Len(e) <= Len(s) /\ SubSeq(s, Len(s) - Len(e) + 1, Len(s)) = e

\* sub in s
Contains(s, sub) ==
    \E i \in 0..(Len(s) - Len(sub)) : SubSeq(s, i + 1, i + Len(sub)) = sub

\* s.find(c) + 1 for a one-character c: the first position of c, 0 if none
IndexOf(s, c) ==
    IF \E i \in DOMAIN s : s[i] = c
    THEN CHOOSE i \in DOMAIN s : s[i] = c /\ \A j \in 1..(i - 1) : s[j] # c
    ELSE 0

\* s.rfind(c) + 1: the last position of c, 0 if none
LastIndexOf(s, c) ==
    IF \E i \in DOMAIN s : s[i] = c
    THEN CHOOSE i \in DOMAIN s : s[i] = c /\ \A j \in (i + 1)..Len(s) : s[j] # c
    ELSE 0

\* s.split(c): always at least one part
RECURSIVE Split(_, _)
Split(s, c) ==
    LET i == IndexOf(s, c)
    IN  IF i = 0 THEN <<s>>
        ELSE <<SubSeq(s, 1, i - 1)>> \o Split(SubSeq(s, i + 1, Len(s)), c)

\* c.join(parts)
RECURSIVE Join(_, _)
Join(parts, c) ==
    IF parts = << >> THEN << >>
    ELSE IF Len(parts) = 1 THEN parts[1]
    ELSE parts[1] \o <<c>> \o Join(Tail(parts), c)

Whitespace == {" ", "\t", "\n", "\r"}

\* str.strip()
RECURSIVE LStrip(_)
LStrip(s) ==
    IF s # << >> /\ s[1] \in Whitespace THEN LStrip(Tail(s)) ELSE s

RECURSIVE RStrip(_)
RStrip(s) ==
    IF s # << >> /\ s[Len(s)] \in Whitespace THEN RStrip(SubSeq(s, 1, Len(s) - 1)) ELSE s

Strip(s) == RStrip(LStrip(s))

\* str.splitlines(), for the line boundaries \n, \r and \r\n: no empty last
\* line after a final line break
RECURSIVE SplitLines(_)
SplitLines(s) ==
    IF s = << >> THEN << >>
    ELSE IF \E i \in DOMAIN s : s[i] \in {"\n", "\r"}
    THEN LET i == CHOOSE k \in DOMAIN s :
                      s[k] \in {"\n", "\r"} /\ \A j \in 1..(k - 1) : s[j] \notin {"\n", "\r"}
             skip == IF s[i] = "\r" /\ i < Len(s) /\ s[i + 1] = "\n" THEN 2 ELSE 1
         IN  <<SubSeq(s, 1, i - 1)>> \o SplitLines(SubSeq(s, i + skip, Len(s)))
    ELSE <<s>>

\* os.path.basename
basename(p) == SubSeq(p, LastIndexOf(p, "/") + 1, Len(p))

\* os.path.dirname, for the paths of the model (no trailing slashes)
dirname(p) ==
    LET i == LastIndexOf(p, "/")
    IN  IF i = 0 THEN << >> ELSE IF i = 1 THEN <<"/">> ELSE SubSeq(p, 1, i - 1)

\* os.path.join of two parts
path_join(a, b) ==
    IF b # << >> /\ b[1] = "/" THEN b
    ELSE IF a = << >> \/ a[Len(a)] = "/" THEN a \o b
    ELSE a \o <<"/">> \o b

\* a Python dict as a function; d[k] = v
EmptyDict == [k \in {} |-> k]
DictSet(d, k, v) == [x \in (DOMAIN d) \cup {k} |-> IF x = k THEN v ELSE d[x]]
\* d.get(k, default)
DictGet(d, k, default) == IF k \in DOMAIN d THEN d[k] ELSE default

(***************************************************************************)
(* Identity Resolver.                                                      *)
(***************************************************************************)
\* the for loop of lines 57-60: the first matching extension is stripped
\* variant: the loop of lines 57-60 without its break
RECURSIVE StripEveryExt(_, _)
StripEveryExt(base, exts) ==
    IF exts = << >> THEN base
    ELSE IF EndsWith(base, exts[1])
    THEN StripEveryExt(SubSeq(base, 1, Len(base) - Len(exts[1])), Tail(exts))
    ELSE StripEveryExt(base, Tail(exts))

RECURSIVE StripFirstExt(_, _)
StripFirstExt(base, exts) ==
    IF exts = << >> THEN base
    ELSE IF EndsWith(base, exts[1])
    THEN SubSeq(base, 1, Len(base) - Len(exts[1]))
    ELSE StripFirstExt(base, Tail(exts))

infer_stub_from_filename(filename) ==
    LET base == StripFirstExt(basename(filename), FASTQ_EXTS)
        parts == Split(base, "_")
    IN  IF Len(parts) > 1
        THEN Join(SubSeq(parts, 1, Len(parts) - 1), "_")
        ELSE base

\* variant: the line split at its last '='
ParseLineRsplit(mapping, rawline) ==
    LET line == Strip(rawline)
    IN  IF line = << >> \/ StartsWith(line, <<"#">>) THEN mapping
        ELSE IF Contains(line, <<"=">>)
        THEN LET i == LastIndexOf(line, "=")
                 stub == Strip(SubSeq(line, 1, i - 1))
                 name == Strip(SubSeq(line, i + 1, Len(line)))
             IN  IF stub # << >> /\ name # << >>
                 THEN DictSet(mapping, stub, name)
                 ELSE mapping
        ELSE mapping

\* the body of the loop of lines 78-87 for one line
ParseLine(mapping, rawline) ==
    LET line == Strip(rawline)
    IN  IF line = << >> \/ StartsWith(line, <<"#">>) THEN mapping
        ELSE IF Contains(line, <<"=">>)
        THEN LET i == IndexOf(line, "=")
                 stub == Strip(SubSeq(line, 1, i - 1))
                 name == Strip(SubSeq(line, i + 1, Len(line)))
             IN  IF stub # << >> /\ name # << >>
                 THEN DictSet(mapping, stub, name)
                 ELSE mapping
        ELSE mapping

RECURSIVE ParseLines(_, _)
ParseLines(mapping, lines) ==
    IF lines = << >> THEN mapping
    ELSE ParseLines(ParseLine(mapping, lines[1]), Tail(lines))

parse_group_map_text(text) == ParseLines(EmptyDict, SplitLines(text))

(***************************************************************************)
(* Config Synthesizer.                                                     *)
(***************************************************************************)
\* variant: the overrides of the user not looked up
RECURSIVE BuildGroupMapNoOverride(_, _, _)
BuildGroupMapNoOverride(group_map, fastq_paths, user_map) ==
    IF fastq_paths = << >> THEN group_map
    ELSE LET stub == infer_stub_from_filename(fastq_paths[1])
         IN  BuildGroupMapNoOverride(DictSet(group_map, stub, stub), Tail(fastq_paths),
                                     user_map)

\* the loop of lines 114-118
RECURSIVE BuildGroupMap(_, _, _)
BuildGroupMap(group_map, fastq_paths, user_map) ==
    IF fastq_paths = << >> THEN group_map
    ELSE LET stub == infer_stub_from_filename(fastq_paths[1])
             sample_name == DictGet(user_map, stub, stub)
         IN  BuildGroupMap(DictSet(group_map, stub, sample_name), Tail(fastq_paths), user_map)

\* variant: the top-level fastq_files list holds only the first path
build_runtime_config_first_file(marker, fastq_paths, min_similarity, anchor_units, user_group_map_text) ==
    IF marker \notin DOMAIN MARKERS
    THEN [raised |-> TRUE, cfg |-> EmptyDict]
    ELSE LET marker_def == MARKERS[marker]
             user_map == parse_group_map_text(user_group_map_text)
             group_map == BuildGroupMap(EmptyDict, fastq_paths, user_map)
         IN  [raised |-> FALSE,
              cfg |-> [markers |-> (marker :> [seq1 |-> marker_def.seq1,
                                                seq2 |-> marker_def.seq2,
                                                motif |-> marker_def.motif,
                                                group_map |-> group_map,
                                                fastq_files |-> fastq_paths]),
                       min_similarity |-> min_similarity,
                       anchor_units |-> anchor_units,
                       fastq_files |-> SubSeq(fastq_paths, 1, 1)]]

\* raises ValueError for an unknown marker, else returns the cfg dict
build_runtime_config(marker, fastq_paths, min_similarity, anchor_units, user_group_map_text) ==
    IF marker \notin DOMAIN MARKERS
    THEN [raised |-> TRUE, cfg |-> EmptyDict]
    ELSE LET marker_def == MARKERS[marker]
             user_map == parse_group_map_text(user_group_map_text)
             group_map == BuildGroupMap(EmptyDict, fastq_paths, user_map)
         IN  [raised |-> FALSE,
              cfg |-> [markers |-> (marker :> [seq1 |-> marker_def.seq1,
                                                seq2 |-> marker_def.seq2,
                                                motif |-> marker_def.motif,
                                                group_map |-> group_map,
                                                fastq_files |-> fastq_paths]),
                       min_similarity |-> min_similarity,
                       anchor_units |-> anchor_units,
                       fastq_files |-> fastq_paths]]


(***************************************************************************)
(* State.                                                                  *)
(***************************************************************************)
VARIABLES
    session_state,  \* st.session_state: [results, tmpdir]
    dirs,           \* the directories on disk (paths)
    files,          \* the regular files on disk (paths)
    manifests,      \* the document in each manifest file written: path -> cfg
    hg38,           \* the listing of EXAMPLES_HG38_DIR, None if it is no directory
    mkdtemp_count,  \* how many directories tempfile.mkdtemp has made
    last,           \* history: what the last script run (one execution of main) did
    primary_inventory,  \* history: the inventory the primary run stored with the
                        \* stored results, {} without stored results
    partial,        \* history: the files the analyzer wrote in the last primary run
                    \* that timed out, until the next inventory walk or reset
    selected,       \* history: the marker the selectbox showed in the last script
                    \* run, None after a reset
    uploaded,       \* history: the names of the files the last primary run was
                    \* given, in the uploader's order
    running,        \* the analyzer processes that are alive: [argv, cwd]
    pc,             \* the script run of the session: None between script runs,
                    \* Some(ctx) while it is blocked in subprocess.run
    call            \* a function called on its own: [fn, args, ret, done],
                    \* None in a session

vars == <<session_state, dirs, files, manifests, hg38, mkdtemp_count, last,
          primary_inventory, partial, selected, uploaded, running, pc, call>>

(***************************************************************************)
(* What one script run did: the button handled, how it ended, the command  *)
(* handed to subprocess.run with its cwd (None when subprocess.run was not *)
(* reached), the arguments of the run and whether the inventory was        *)
(* walked and stored.                                                      *)
(***************************************************************************)
Did(op, outcome, argv, cwd, marker, fastq_paths, proc, scanned) ==
    [op |-> op, outcome |-> outcome, argv |-> argv, cwd |-> cwd, marker |-> marker,
     fastq_paths |-> fastq_paths, proc |-> proc, scanned |-> scanned]

\* int -> decimal digits, str(n) for n >= 0
Digits == <<"0", "1", "2", "3", "4", "5", "6", "7", "8", "9">>
RECURSIVE Str(_)
Str(n) == IF n < 10 THEN <<Digits[n + 1]>> ELSE Str(n \div 10) \o <<Digits[(n % 10) + 1]>>

(***************************************************************************)
(* The external analyzer, as subprocess.run sees it: the executable is     *)
(* missing (FileNotFoundError, nothing ran), or it ran in cwd, wrote some  *)
(* files there and either exceeded the timeout or exited.                  *)
(***************************************************************************)
NoProc == [kind |-> "none", returncode |-> 0, stdout |-> "", stderr |-> "", wrote |-> {}]

ProcOutcomes(out_names) ==
    {[kind |-> "not_found", returncode |-> 0, stdout |-> "", stderr |-> "", wrote |-> {}]}
    \cup {[kind |-> "timeout", returncode |-> 0, stdout |-> "", stderr |-> "", wrote |-> w] :
            w \in SUBSET out_names}
    \cup {[kind |-> "exit", returncode |-> 0, stdout |-> "out", stderr |-> "", wrote |-> w] :
            w \in SUBSET out_names}
    \cup {[kind |-> "exit", returncode |-> 1, stdout |-> "", stderr |-> "err", wrote |-> w] :
            w \in SUBSET out_names}

\* files the analyzer may leave in its working directory
RUN_MARKER_OUTPUT == {<<"s", "u", "m", "m", "a", "r", "y", ".", "c", "s", "v">>}
PILEUP_OUTPUT == {<<"p", "i", "l", "e", "u", "p", ".", "p", "n", "g">>}

\* the files on disk after the analyzer wrote `wrote` in cwd
AfterProc(fs, cwd, proc) == fs \cup {path_join(cwd, n) : n \in proc.wrote}

\* s or ""
OrEmpty(s) == IF s = "" THEN "" ELSE s

(***************************************************************************)
(* Artifact Collector: the os.walk loops of lines 289-301 and 322-334.     *)
(* The list is modelled as a set: os.walk yields every file once, in an    *)
(* order the file system decides.                                          *)
(***************************************************************************)
IsUnder(p, root) == StartsWith(p, root \o <<"/">>)

FileInfo(p, tmpdir) ==
    LET root == dirname(p)
        name == basename(p)
        rel_root == IF root = tmpdir THEN <<".">>
                    ELSE SubSeq(root, Len(tmpdir) + 2, Len(root))
    IN  [path |-> path_join(root, name),
         relpath |-> IF rel_root # <<".">> THEN path_join(rel_root, name) ELSE name,
         name |-> name]

Walk(fs, tmpdir) == {FileInfo(p, tmpdir) : p \in {f \in fs : IsUnder(f, tmpdir)}}


Range(f) == {f[i] : i \in DOMAIN f}

(***************************************************************************)
(* Reference resolution.  os.listdir returns the names in an order the     *)
(* file system decides, so the first match may be any match: the operator  *)
(* gives the set of paths the function can return; it raises               *)
(* FileNotFoundError when that set is empty.                               *)
(***************************************************************************)
\* variant: the extension test of line 184 left out
get_reference_any_file(marker) ==
    IF hg38 = None THEN {}
    ELSE {path_join(EXAMPLES_HG38_DIR, filename) : filename \in
            {f \in hg38[1] : Contains(Lower(f), Lower(marker))}}

get_reference_for_marker(marker) ==
    IF hg38 = None THEN {}
    ELSE LET marker_lower == Lower(marker)
         IN  {path_join(EXAMPLES_HG38_DIR, filename) : filename \in
                {f \in hg38[1] :
                    /\ EndsWith(Lower(f), EXT_FA) \/ EndsWith(Lower(f), EXT_FASTA)
                    /\ Contains(Lower(f), marker_lower)}}

(***************************************************************************)
(* Session state.                                                          *)
(***************************************************************************)
\* init_session_state, on the first script run of a session
init_session_state == [results |-> None, tmpdir |-> None]

\* variant: the shutil.rmtree of line 149 carried out
clear_results_rmtree ==
    /\ session_state' = [results |-> None, tmpdir |-> None]
    /\ dirs' = {d \in dirs : d # session_state.tmpdir /\ ~IsUnder(d, session_state.tmpdir)}
    /\ files' = {f \in files : ~IsUnder(f, session_state.tmpdir)}
    /\ manifests' = [f \in {g \in DOMAIN manifests : ~IsUnder(g, session_state.tmpdir)} |->
                        manifests[f]]

\* variant: only the tmpdir key reset, the results kept
clear_results_keep_results ==
    /\ session_state' = [session_state EXCEPT !.tmpdir = None]
    /\ UNCHANGED <<dirs, files, manifests>>

\* clear_results: both keys back to None, nothing removed from disk
clear_results ==
    /\ session_state' = [results |-> None, tmpdir |-> None]
    /\ UNCHANGED <<dirs, files, manifests>>

\* variant: the results of the previous run dropped when a run starts
SetTmpdirDropResults(ss, tmpdir) == [results |-> None, tmpdir |-> tmpdir]

\* line 210: the new directory becomes the session's tmpdir
SetTmpdir(ss, tmpdir) == [ss EXCEPT !.tmpdir = tmpdir]

\* variant: results stored only for exit code 0
StoreResultsOnSuccess(ss, proc, files_info, fastq_paths, marker) ==
    IF proc.returncode # 0 THEN ss
    ELSE [ss EXCEPT !.results = Some([stdout |-> OrEmpty(proc.stdout),
                                      stderr |-> OrEmpty(proc.stderr),
                                      returncode |-> proc.returncode,
                                      files |-> files_info,
                                      fastq_paths |-> fastq_paths,
                                      marker |-> marker])]

\* lines 303-310: the results dict of a primary run
StoreResults(ss, proc, files_info, fastq_paths, marker) ==
    [ss EXCEPT !.results = Some([stdout |-> OrEmpty(proc.stdout),
                                 stderr |-> OrEmpty(proc.stderr),
                                 returncode |-> proc.returncode,
                                 files |-> files_info,
                                 fastq_paths |-> fastq_paths,
                                 marker |-> marker])]

\* variant: --threads given for every thread count
RunMarkerCmdThreadsAlways(marker, manifest_path, run_tests, skip_variant_summary, threads) ==
    <<MSIANALYZER, RUN_MARKER, marker, manifest_path>>
    \o (IF run_tests THEN <<OPT_RUN_TESTS>> ELSE << >>)
    \o (IF skip_variant_summary THEN <<OPT_SKIP_VARIANT_SUMMARY>> ELSE << >>)
    \o (IF threads # 0 THEN <<OPT_THREADS, Str(threads)>> ELSE << >>)

\* lines 255-263: the command of a primary run
RunMarkerCmd(marker, manifest_path, run_tests, skip_variant_summary, threads) ==
    <<MSIANALYZER, RUN_MARKER, marker, manifest_path>>
    \o (IF run_tests THEN <<OPT_RUN_TESTS>> ELSE << >>)
    \o (IF skip_variant_summary THEN <<OPT_SKIP_VARIANT_SUMMARY>> ELSE << >>)
    \o (IF threads # 0 /\ threads > 1 THEN <<OPT_THREADS, Str(threads)>> ELSE << >>)

\* line 363: the command of a pileup
PileupCmd(fastq_path, ref_path) == <<MSIANALYZER, PILEUP, fastq_path, ref_path>>

\* variant: the test of line 225 left out
never_empty(fastq_paths) == FALSE

\* line 225: `not fastq_paths`
not_fastq_paths(fastq_paths) == fastq_paths = << >>

(***************************************************************************)
(* run_msianalyzer_once, with the outcome `proc` of the analyzer.  Each    *)
(* st.stop() ends the script run: nothing after it in main executes.       *)
(***************************************************************************)
run_msianalyzer_once(inp, proc) ==
    LET tmpdir == TMP_PREFIX \o Str(mkdtemp_count + 1)
        fastq_dir == path_join(tmpdir, FASTQ_SUBDIR)
        fastq_paths == [i \in DOMAIN inp.fastq_files |->
                            path_join(fastq_dir, inp.fastq_files[i])]
        built == build_runtime_config(inp.marker, fastq_paths, inp.min_similarity,
                                      inp.anchor_units, inp.group_map_text)
        manifest_path == path_join(tmpdir, MANIFEST_NAME)
        cmd == RunMarkerCmd(inp.marker, manifest_path, inp.run_tests,
                            inp.skip_variant_summary, inp.threads)
        saved == files \cup Range(fastq_paths)
        written == saved \cup {manifest_path}
        ran == AfterProc(written, tmpdir, proc)
        did(outcome, argv, p, scanned) ==
            Did("run", outcome, argv, IF argv = None THEN None ELSE tmpdir,
                inp.marker, fastq_paths, p, scanned)
    IN  /\ mkdtemp_count < MaxRuns
        /\ mkdtemp_count' = mkdtemp_count + 1
        /\ dirs' = dirs \cup {tmpdir, fastq_dir}
        /\ UNCHANGED <<hg38, running, pc, call>>
        /\ IF not_fastq_paths(fastq_paths)
           THEN \* lines 225-227
                /\ session_state' = SetTmpdir(session_state, tmpdir)
                /\ files' = saved
                /\ UNCHANGED <<manifests, primary_inventory, partial>>
                /\ last' = did("input_error", None, NoProc, FALSE)
           ELSE IF built.raised
           THEN \* lines 242-245
                /\ session_state' = SetTmpdir(session_state, tmpdir)
                /\ files' = saved
                /\ UNCHANGED <<manifests, primary_inventory, partial>>
                /\ last' = did("config_error", None, NoProc, FALSE)
           ELSE /\ manifests' = DictSet(manifests, manifest_path, built.cfg)
                /\ IF proc.kind = "not_found"
                   THEN \* lines 276-282
                        /\ session_state' = SetTmpdir(session_state, tmpdir)
                        /\ files' = written
                        /\ UNCHANGED <<primary_inventory, partial>>
                        /\ last' = did("tool_not_found", cmd, NoProc, FALSE)
                   ELSE IF proc.kind = "timeout"
                   THEN \* lines 283-286
                        /\ session_state' = SetTmpdir(session_state, tmpdir)
                        /\ files' = ran
                        /\ UNCHANGED primary_inventory
                        /\ partial' = {path_join(tmpdir, n) : n \in proc.wrote}
                        /\ last' = did("timeout", cmd, proc, FALSE)
                   ELSE \* lines 288-310
                        /\ session_state' =
                              StoreResults(SetTmpdir(session_state, tmpdir), proc,
                                           Walk(ran, tmpdir), fastq_paths, inp.marker)
                        /\ files' = ran
                        /\ primary_inventory' = Walk(ran, tmpdir)
                        /\ partial' = {}
                        /\ last' = did("exit", cmd, proc, TRUE)

(***************************************************************************)
(* refresh_results_files: the session state after the rescan.              *)
(***************************************************************************)
\* variant: the logs of the stored results reset together with the file list
refresh_results_reset_logs(ss, ds, fs) ==
    IF ss.tmpdir = None \/ ss.results = None THEN ss
    ELSE IF ss.tmpdir \notin ds THEN ss
    ELSE [ss EXCEPT !.results = Some([ss.results[1] EXCEPT !.files = Walk(fs, ss.tmpdir),
                                                           !.stdout = "",
                                                           !.stderr = "",
                                                           !.returncode = 0])]

refresh_results_files(ss, ds, fs) ==
    IF ss.tmpdir = None \/ ss.results = None THEN ss
    ELSE IF ss.tmpdir \notin ds THEN ss
    ELSE [ss EXCEPT !.results = Some([ss.results[1] EXCEPT !.files = Walk(fs, ss.tmpdir)])]

(***************************************************************************)
(* run_pileup_and_show(marker, fastq_path), with the reference os.listdir  *)
(* finds first and the outcome `proc` of the analyzer.                     *)
(***************************************************************************)
run_pileup_and_show(marker, fastq_path, proc) ==
    LET tmpdir == session_state.tmpdir
        refs == get_reference_for_marker(marker)
        did(outcome, argv, p, scanned) ==
            Did("pileup", outcome, argv, IF argv = None THEN None ELSE tmpdir,
                marker, <<fastq_path>>, p, scanned)
    IN  /\ UNCHANGED <<dirs, manifests, hg38, mkdtemp_count, primary_inventory,
                        running, pc, call>>
        /\ IF tmpdir = None \/ tmpdir \notin dirs
           THEN \* lines 346-348
                /\ UNCHANGED <<session_state, files, partial>>
                /\ last' = did("no_tmpdir", None, NoProc, FALSE)
           ELSE IF refs = {}
           THEN \* lines 352-354
                /\ UNCHANGED <<session_state, files, partial>>
                /\ last' = did("reference_not_found", None, NoProc, FALSE)
           ELSE IF fastq_path \notin files
           THEN \* lines 358-360
                /\ UNCHANGED <<session_state, files, partial>>
                /\ last' = did("fastq_not_found", None, NoProc, FALSE)
           ELSE \E ref_path \in refs :
                LET cmd == PileupCmd(fastq_path, ref_path)
                    ran == AfterProc(files, tmpdir, proc)
                IN  IF proc.kind = "not_found"
                    THEN \* lines 375-377
                         /\ UNCHANGED <<session_state, files, partial>>
                         /\ last' = did("tool_not_found", cmd, NoProc, FALSE)
                    ELSE IF proc.kind = "timeout"
                    THEN \* lines 378-380
                         /\ UNCHANGED <<session_state, partial>>
                         /\ files' = ran
                         /\ last' = did("timeout", cmd, proc, FALSE)
                    ELSE IF proc.returncode # 0
                    THEN \* lines 391-393
                         /\ UNCHANGED <<session_state, partial>>
                         /\ files' = ran
                         /\ last' = did("exit", cmd, proc, FALSE)
                    ELSE \* lines 395-397
                         /\ session_state' = refresh_results_files(session_state, dirs, ran)
                         /\ files' = ran
                         /\ partial' = {}
                         /\ last' = did("exit", cmd, proc, TRUE)

(***************************************************************************)
(* main: one script run per user action.  A Streamlit button is True only  *)
(* in the script run its click triggers, so a run handles one button.      *)
(***************************************************************************)
\* lines 597-599
ClearClicked ==
    /\ clear_results
    /\ UNCHANGED <<hg38, mkdtemp_count, running, pc, call>>
    /\ selected' = None
    /\ uploaded' = << >>
    /\ primary_inventory' = {}
    /\ partial' = {}
    /\ last' = Did("clear", "done", None, None, None, << >>, NoProc, FALSE)

\* lines 601-618
RunClicked(inp, proc) ==
    /\ selected' = inp.marker
    /\ uploaded' = inp.fastq_files
    /\ IF inp.fastq_files = << >>
       THEN /\ UNCHANGED <<session_state, dirs, files, manifests, hg38, mkdtemp_count,
                           primary_inventory, partial, running, pc, call>>
            /\ last' = Did("run", "no_upload", None, None, inp.marker, << >>, NoProc, FALSE)
       ELSE run_msianalyzer_once(inp, proc)

\* variant: the marker of the selectbox used for the pileup
marker_selected(res, marker) == marker

\* line 643: res.get("marker", marker)
marker_for_pileup(res, marker) == DictGet(res, "marker", marker)

\* lines 622-644: the button exists only with stored results; the selectbox
\* offers the basenames and .index() gives the first path with the chosen one
PileupClicked(marker, pileup_fastq, proc) ==
    /\ selected' = marker
    /\ uploaded' = << >>
    /\ session_state.results # None
    /\ session_state.results[1].fastq_paths # << >>
    /\ LET res == session_state.results[1]
           fastq_paths == res.fastq_paths
           fastq_basenames == [i \in DOMAIN fastq_paths |-> basename(fastq_paths[i])]
       IN  /\ pileup_fastq \in Range(fastq_basenames)
           /\ LET idx == CHOOSE i \in DOMAIN fastq_basenames :
                            /\ fastq_basenames[i] = pileup_fastq
                            /\ \A j \in 1..(i - 1) : fastq_basenames[j] # pileup_fastq
              IN  run_pileup_and_show(marker_for_pileup(res, marker), fastq_paths[idx],
                                      proc)

(***************************************************************************)
(* Inputs.                                                                 *)
(***************************************************************************)
UPLOAD_A == <<"a", "_", "1", ".", "f", "q">>
UPLOAD_B == <<"b", ".", "f", "a", "s", "t", "q">>
Uploads == {UPLOAD_A, UPLOAD_B}

MAP_TEXT == <<"a", " ", "=", " ", "X", "\n">>

\* a marker id outside the catalog
UNKNOWN_MARKER == <<"B", "A", "T", "4", "0">>

Input(marker, fastq_files, group_map_text, run_tests, skip_variant_summary, threads) ==
    [marker |-> marker, fastq_files |-> fastq_files, min_similarity |-> 85,
     anchor_units |-> 3, run_tests |-> run_tests,
     skip_variant_summary |-> skip_variant_summary, threads |-> threads,
     group_map_text |-> group_map_text]

\* the widgets of main: the selectbox offers the catalog's keys, the uploader
\* gives the (possibly empty) list of uploaded files
UiInputs ==
    {Input(BAT25, << >>, << >>, FALSE, FALSE, 1),
     Input(BAT25, <<UPLOAD_A>>, << >>, FALSE, FALSE, 1),
     Input(BAT26, <<UPLOAD_A, UPLOAD_B>>, MAP_TEXT, TRUE, TRUE, 4)}

\* the reference directory: absent, or holding a sequence file for BAT25
\* and none for BAT26
Hg38Listings ==
    {None,
     Some({<<"c", "h", "r", "_", "B", "A", "T", "2", "5", ".", "F", "A">>,
           <<"b", "a", "t", "2", "6", ".", "t", "x", "t">>})}

(***************************************************************************)
(* The session driven through main.                                        *)
(***************************************************************************)
Init ==
    /\ session_state = init_session_state
    /\ dirs = {}
    /\ files = {}
    /\ manifests = EmptyDict
    /\ hg38 \in Hg38Listings
    /\ mkdtemp_count = 0
    /\ last = Did("init", "done", None, None, None, << >>, NoProc, FALSE)
    /\ primary_inventory = {}
    /\ partial = {}
    /\ selected = None
    /\ uploaded = << >>
    /\ running = {}
    /\ pc = None
    /\ call = None

Run == \E inp \in UiInputs, proc \in ProcOutcomes(RUN_MARKER_OUTPUT) : RunClicked(inp, proc)

\* the marker selectbox shows the marker of the stored results
Pileup ==
    \E n \in Uploads, proc \in ProcOutcomes(PILEUP_OUTPUT) :
        /\ session_state.results # None
        /\ PileupClicked(session_state.results[1].marker, n, proc)

Next == ClearClicked \/ Run \/ Pileup

Spec == Init /\ [][Next]_vars

(***************************************************************************)
(* The orchestrator called directly: run_msianalyzer_once takes any marker *)
(* string and any list of files, without the checks of main's widgets.     *)
(***************************************************************************)
OrchestratorInputs ==
    UiInputs \cup {Input(UNKNOWN_MARKER, <<UPLOAD_A>>, << >>, FALSE, FALSE, 1)}

RunOnce ==
    \E inp \in OrchestratorInputs, proc \in ProcOutcomes(RUN_MARKER_OUTPUT) :
        /\ selected' = inp.marker
        /\ uploaded' = inp.fastq_files
        /\ run_msianalyzer_once(inp, proc)

NextOrchestrator == ClearClicked \/ RunOnce \/ Pileup

SpecOrchestrator == Init /\ [][NextOrchestrator]_vars

\* primary runs only: direct calls of the orchestrator and resets
NextRunOnce == ClearClicked \/ RunOnce

SpecRunOnce == Init /\ [][NextRunOnce]_vars

(***************************************************************************)
(* The marker selectbox changed between the primary run and the pileup:    *)
(* primary runs whose analyzer exits, pileups with any selectable marker.  *)
(***************************************************************************)
\* the markers the selectbox of line 512 is set to
Selectable == {BAT25, BAT26}

RunExit ==
    \E inp \in UiInputs, proc \in {p \in ProcOutcomes(RUN_MARKER_OUTPUT) : p.kind = "exit"} :
        RunClicked(inp, proc)

PileupReselect ==
    \E marker \in Selectable, n \in Uploads, proc \in ProcOutcomes(PILEUP_OUTPUT) :
        PileupClicked(marker, n, proc)

NextSelect == ClearClicked \/ RunExit \/ PileupReselect

SpecSelect == Init /\ [][NextSelect]_vars


(***************************************************************************)
(* The script run in two steps around subprocess.run: the handler up to    *)
(* the call, which blocks the script thread of the session while the       *)
(* analyzer is alive, and the handler from the return of the call on.  A   *)
(* click made while the script is blocked starts the next script run.      *)
(***************************************************************************)
Child(argv, cwd) == [argv |-> argv, cwd |-> cwd]

Ctx(op, cmd, cwd, marker, fastq_paths) ==
    [op |-> op, cmd |-> cmd, cwd |-> cwd, marker |-> marker, fastq_paths |-> fastq_paths]

\* variant: the child left alive when the timeout expires
returns_leaving_child(alive, child, proc) ==
    IF proc.kind = "timeout" THEN alive ELSE alive \ {child}

\* subprocess.run returns once the child has exited and raises TimeoutExpired
\* once it has killed the child
subprocess_run(alive, child, proc) == alive \ {child}

\* main lines 601-618 and run_msianalyzer_once up to the call of line 268
StartRun(inp, found) ==
    /\ pc = None
    /\ selected' = inp.marker
    /\ uploaded' = inp.fastq_files
    /\ UNCHANGED <<hg38, primary_inventory, partial, call>>
    /\ IF inp.fastq_files = << >>
       THEN /\ UNCHANGED <<session_state, dirs, files, manifests, mkdtemp_count,
                           running, pc>>
            /\ last' = Did("run", "no_upload", None, None, inp.marker, << >>, NoProc, FALSE)
       ELSE LET tmpdir == TMP_PREFIX \o Str(mkdtemp_count + 1)
                fastq_dir == path_join(tmpdir, FASTQ_SUBDIR)
                fastq_paths == [i \in DOMAIN inp.fastq_files |->
                                    path_join(fastq_dir, inp.fastq_files[i])]
                built == build_runtime_config(inp.marker, fastq_paths, inp.min_similarity,
                                              inp.anchor_units, inp.group_map_text)
                manifest_path == path_join(tmpdir, MANIFEST_NAME)
                cmd == RunMarkerCmd(inp.marker, manifest_path, inp.run_tests,
                                    inp.skip_variant_summary, inp.threads)
                saved == files \cup Range(fastq_paths)
                did(outcome, argv) ==
                    Did("run", outcome, argv, IF argv = None THEN None ELSE tmpdir,
                        inp.marker, fastq_paths, NoProc, FALSE)
            IN  /\ mkdtemp_count < MaxRuns
                /\ mkdtemp_count' = mkdtemp_count + 1
                /\ dirs' = dirs \cup {tmpdir, fastq_dir}
                /\ session_state' = SetTmpdir(session_state, tmpdir)
                /\ IF not_fastq_paths(fastq_paths)
                   THEN /\ files' = saved
                        /\ UNCHANGED <<manifests, running, pc>>
                        /\ last' = did("input_error", None)
                   ELSE IF built.raised
                   THEN /\ files' = saved
                        /\ UNCHANGED <<manifests, running, pc>>
                        /\ last' = did("config_error", None)
                   ELSE /\ files' = saved \cup {manifest_path}
                        /\ manifests' = DictSet(manifests, manifest_path, built.cfg)
                        /\ IF ~found
                           THEN \* lines 276-282
                                /\ UNCHANGED <<running, pc>>
                                /\ last' = did("tool_not_found", cmd)
                           ELSE /\ running' = running \cup {Child(cmd, tmpdir)}
                                /\ pc' = Some(Ctx("run", cmd, tmpdir, inp.marker, fastq_paths))
                                /\ last' = did("running", cmd)

\* run_msianalyzer_once from the return of the call of line 268 on
FinishRun(proc) ==
    /\ pc # None
    /\ pc[1].op = "run"
    /\ proc.kind # "not_found"
    /\ LET ctx == pc[1]
           ran == AfterProc(files, ctx.cwd, proc)
           did(outcome, scanned) ==
               Did("run", outcome, ctx.cmd, ctx.cwd, ctx.marker, ctx.fastq_paths, proc,
                   scanned)
       IN  /\ files' = ran
           /\ running' = subprocess_run(running, Child(ctx.cmd, ctx.cwd), proc)
           /\ pc' = None
           /\ UNCHANGED <<dirs, manifests, hg38, mkdtemp_count, selected, uploaded, call>>
           /\ IF proc.kind = "timeout"
              THEN \* lines 283-286
                   /\ UNCHANGED <<session_state, primary_inventory>>
                   /\ partial' = {path_join(ctx.cwd, n) : n \in proc.wrote}
                   /\ last' = did("timeout", FALSE)
              ELSE \* lines 288-310
                   /\ session_state' = StoreResults(session_state, proc, Walk(ran, ctx.cwd),
                                                    ctx.fastq_paths, ctx.marker)
                   /\ primary_inventory' = Walk(ran, ctx.cwd)
                   /\ partial' = {}
                   /\ last' = did("exit", TRUE)

\* main lines 622-644 and run_pileup_and_show up to the call of line 367
StartPileup(marker, pileup_fastq, found) ==
    /\ pc = None
    /\ selected' = marker
    /\ uploaded' = << >>
    /\ session_state.results # None
    /\ session_state.results[1].fastq_paths # << >>
    /\ UNCHANGED <<session_state, dirs, files, manifests, hg38, mkdtemp_count,
                    primary_inventory, partial, call>>
    /\ LET res == session_state.results[1]
           fastq_paths == res.fastq_paths
           fastq_basenames == [i \in DOMAIN fastq_paths |-> basename(fastq_paths[i])]
       IN  /\ pileup_fastq \in Range(fastq_basenames)
           /\ LET idx == CHOOSE i \in DOMAIN fastq_basenames :
                            /\ fastq_basenames[i] = pileup_fastq
                            /\ \A j \in 1..(i - 1) : fastq_basenames[j] # pileup_fastq
                  fastq_path == fastq_paths[idx]
                  marker_used == marker_for_pileup(res, marker)
                  tmpdir == session_state.tmpdir
                  refs == get_reference_for_marker(marker_used)
                  did(outcome, argv) ==
                      Did("pileup", outcome, argv, IF argv = None THEN None ELSE tmpdir,
                          marker_used, <<fastq_path>>, NoProc, FALSE)
              IN  IF tmpdir = None \/ tmpdir \notin dirs
                  THEN /\ UNCHANGED <<running, pc>>
                       /\ last' = did("no_tmpdir", None)
                  ELSE IF refs = {}
                  THEN /\ UNCHANGED <<running, pc>>
                       /\ last' = did("reference_not_found", None)
                  ELSE IF fastq_path \notin files
                  THEN /\ UNCHANGED <<running, pc>>
                       /\ last' = did("fastq_not_found", None)
                  ELSE \E ref_path \in refs :
                       LET cmd == PileupCmd(fastq_path, ref_path)
                       IN  IF ~found
                           THEN \* lines 375-377
                                /\ UNCHANGED <<running, pc>>
                                /\ last' = did("tool_not_found", cmd)
                           ELSE /\ running' = running \cup {Child(cmd, tmpdir)}
                                /\ pc' = Some(Ctx("pileup", cmd, tmpdir, marker_used,
                                                  <<fastq_path>>))
                                /\ last' = did("running", cmd)

\* run_pileup_and_show from the return of the call of line 367 on
FinishPileup(proc) ==
    /\ pc # None
    /\ pc[1].op = "pileup"
    /\ proc.kind # "not_found"
    /\ LET ctx == pc[1]
           ran == AfterProc(files, ctx.cwd, proc)
           did(outcome, scanned) ==
               Did("pileup", outcome, ctx.cmd, ctx.cwd, ctx.marker, ctx.fastq_paths, proc,
                   scanned)
       IN  /\ files' = ran
           /\ running' = subprocess_run(running, Child(ctx.cmd, ctx.cwd), proc)
           /\ pc' = None
           /\ UNCHANGED <<dirs, manifests, hg38, mkdtemp_count, primary_inventory,
                           selected, uploaded, call>>
           /\ IF proc.kind = "timeout"
              THEN \* lines 378-380
                   /\ UNCHANGED <<session_state, partial>>
                   /\ last' = did("timeout", FALSE)
              ELSE IF proc.returncode # 0
              THEN \* lines 391-393
                   /\ UNCHANGED <<session_state, partial>>
                   /\ last' = did("exit", FALSE)
              ELSE \* lines 395-397
                   /\ session_state' = refresh_results_files(session_state, dirs, ran)
                   /\ partial' = {}
                   /\ last' = did("exit", TRUE)

ClearStep == pc = None /\ ClearClicked

RunStep == \E inp \in UiInputs, found \in BOOLEAN : StartRun(inp, found)

RunReturns == \E proc \in ProcOutcomes(RUN_MARKER_OUTPUT) : FinishRun(proc)

PileupStep ==
    \E n \in Uploads, found \in BOOLEAN :
        /\ session_state.results # None
        /\ StartPileup(session_state.results[1].marker, n, found)

PileupReturns == \E proc \in ProcOutcomes(PILEUP_OUTPUT) : FinishPileup(proc)

NextSteps == ClearStep \/ RunStep \/ RunReturns \/ PileupStep \/ PileupReturns

SpecSteps == Init /\ [][NextSteps]_vars


(***************************************************************************)
(* A function called on its own, outside a session: the arguments are      *)
(* drawn in the initial state, the call stores what the function returns.  *)
(***************************************************************************)
sessionVars == <<session_state, dirs, files, manifests, hg38, mkdtemp_count, last,
                 primary_inventory, partial, selected, uploaded, running, pc>>

NoSession ==
    /\ session_state = init_session_state
    /\ dirs = {}
    /\ files = {}
    /\ manifests = EmptyDict
    /\ hg38 = None
    /\ mkdtemp_count = 0
    /\ last = Did("init", "done", None, None, None, << >>, NoProc, FALSE)
    /\ primary_inventory = {}
    /\ partial = {}
    /\ selected = None
    /\ uploaded = << >>
    /\ running = {}
    /\ pc = None

Call(fn, args) == [fn |-> fn, args |-> args, ret |-> None, done |-> FALSE]

Returns(ret) ==
    /\ ~call.done
    /\ call' = [call EXCEPT !.ret = ret, !.done = TRUE]
    /\ UNCHANGED sessionVars

\* the strings made of at most n of the pieces, the empty string included
RECURSIVE Concats(_, _)
Concats(pieces, n) ==
    IF n = 0 THEN {<< >>}
    ELSE LET shorter == Concats(pieces, n - 1)
         IN  shorter \cup {s \o t : s \in shorter, t \in pieces}

\* infer_stub_from_filename(filename)
MaxNamePieces == 4
NamePieces == {<<"a">>, <<"_">>, <<"/">>, EXT_FQ, EXT_FASTQ, <<".", "g", "z">>}
FileNames == Concats(NamePieces, MaxNamePieces)

InitStub == NoSession /\ call \in {Call("infer_stub_from_filename", <<f>>) : f \in FileNames}

CallStub == Returns(infer_stub_from_filename(call.args[1]))

SpecStub == InitStub /\ [][CallStub]_vars

\* parse_group_map_text(text)
MaxTextPieces == 5
TextPieces == {<<"a", "=">>, <<"b">>, <<" ">>, <<"#">>, <<"=">>, <<"\n">>}
Texts == Concats(TextPieces, MaxTextPieces)

InitParse == NoSession /\ call \in {Call("parse_group_map_text", <<text>>) : text \in Texts}

CallParse == Returns(parse_group_map_text(call.args[1]))

SpecParse == InitParse /\ [][CallParse]_vars

\* build_runtime_config(marker, fastq_paths, 85, 3, user_group_map_text)
MaxPaths == 2
StubPaths ==
    {<<"/", "d", "/", "a", "_", "1", ".", "f", "q">>,
     <<"a", "_", "2", ".", "f", "q", ".", "g", "z">>,
     <<"b", ".", "f", "a", "s", "t", "q">>,
     <<"b", "_", "1", "_", "2", ".", "f", "q">>}
OverrideTexts ==
    {<< >>,
     MAP_TEXT,
     <<"b", "_", "1", " ", "=", " ", "Y", "\n", "#", " ", "a", " ", "=", " ", "Z", "\n",
       "c", " ", "=", " ", "W">>}
PathLists == UNION {[1..n -> StubPaths] : n \in 0..MaxPaths}

InitConfig ==
    /\ NoSession
    /\ call \in {Call("build_runtime_config", <<BAT25, fastq_paths, 85, 3, text>>) :
                    fastq_paths \in PathLists, text \in OverrideTexts}

CallConfig ==
    Returns(build_runtime_config(call.args[1], call.args[2], call.args[3], call.args[4],
                                 call.args[5]))

SpecConfig == InitConfig /\ [][CallConfig]_vars

\* the command list of lines 255-263
MaxThreads == 12
MANIFEST_PATH == path_join(TMP_PREFIX \o <<"1">>, MANIFEST_NAME)

InitCmd ==
    /\ NoSession
    /\ call \in {Call("cmd", <<marker, MANIFEST_PATH, run_tests, skip_variant_summary, threads>>) :
                    marker \in DOMAIN MARKERS, run_tests \in BOOLEAN,
                    skip_variant_summary \in BOOLEAN, threads \in 0..MaxThreads}

CallCmd ==
    Returns(RunMarkerCmd(call.args[1], call.args[2], call.args[3], call.args[4],
                         call.args[5]))

SpecCmd == InitCmd /\ [][CallCmd]_vars


(***************************************************************************)
(* Properties.                                                             *)
(***************************************************************************)
HasResults == session_state.results # None
Results == session_state.results[1]
InventoryPaths(res) == {e.path : e \in res.files}

\* C1: whenever results are stored, every entry of their inventory and every
\* one of their input file paths lies inside the workspace that is the
\* session's tmpdir.
C1_InventoryInActiveWorkspace ==
    HasResults =>
        /\ session_state.tmpdir # None
        /\ \A p \in InventoryPaths(Results) : IsUnder(p, session_state.tmpdir)
        /\ \A i \in DOMAIN Results.fastq_paths :
              IsUnder(Results.fastq_paths[i], session_state.tmpdir)

\* C2: a run started with a marker id outside the catalog creates no
\* directory, writes no file and no manifest and reaches no subprocess.
C2_UnknownMarkerNoSideEffect ==
    [][(last'.op = "run" /\ last'.marker \notin DOMAIN MARKERS) =>
          /\ last'.outcome = "config_error"
          /\ last'.argv = None
          /\ dirs' = dirs
          /\ files' = files
          /\ manifests' = manifests]_vars

\* C3: after a pileup whose inventory was rescanned, the stored inventory
\* contains every entry of the inventory stored right after the primary run.
C3_RescanSupersetOfPrimary ==
    (last.op = "pileup" /\ last.scanned) =>
        (HasResults /\ primary_inventory \subseteq Results.files)

\* C4: the files written by a primary run that timed out are still on disk,
\* and the next inventory walk of the session stores an inventory that
\* includes them.
C4_PartialArtifactsDiscoverable ==
    [][/\ partial \subseteq files'
       /\ last'.scanned => (HasResults' /\ partial \subseteq InventoryPaths(Results'))]_vars

\* C5: a pileup that exits with a nonzero code still has the inventory
\* rescanned, and the files it wrote appear in the stored inventory.
C5_FailedPileupRescanned ==
    (last.op = "pileup" /\ last.outcome = "exit" /\ last.proc.returncode # 0) =>
        /\ last.scanned
        /\ HasResults
        /\ \A n \in last.proc.wrote : path_join(last.cwd, n) \in InventoryPaths(Results)

\* C6: a primary run whose analyzer exits with a nonzero code stores full
\* results: the captured stdout and stderr, that exit code, the input file
\* paths, the marker and the inventory of the workspace as it is after the
\* analyzer exited (the files it wrote included).
C6_NonZeroExitStoresResults ==
    (last.op = "run" /\ last.proc.kind = "exit" /\ last.proc.returncode # 0) =>
        /\ HasResults
        /\ Results.stdout = last.proc.stdout
        /\ Results.stderr = last.proc.stderr
        /\ Results.returncode = last.proc.returncode
        /\ Results.fastq_paths = last.fastq_paths
        /\ Results.marker = last.marker
        /\ session_state.tmpdir = last.cwd
        /\ InventoryPaths(Results) = {f \in files : IsUnder(f, last.cwd)}
        /\ \A n \in last.proc.wrote : path_join(last.cwd, n) \in InventoryPaths(Results)
        /\ \A i \in DOMAIN last.fastq_paths : last.fastq_paths[i] \in InventoryPaths(Results)

C6_Witness ==
    /\ last.op = "run" /\ last.proc.kind = "exit" /\ last.proc.returncode # 0
    /\ last.proc.wrote # {}
    /\ HasResults

C8_PileupChangesOnlyInventory ==
    [][last'.op = "pileup" =>
          /\ HasResults /\ HasResults'
          /\ Results'.stdout = Results.stdout
          /\ Results'.stderr = Results.stderr
          /\ Results'.returncode = Results.returncode
          /\ Results'.fastq_paths = Results.fastq_paths
          /\ Results'.marker = Results.marker]_vars

C8_Witness ==
    /\ last.op = "pileup" /\ last.scanned
    /\ HasResults
    /\ Results.files # primary_inventory
    /\ Results.returncode # 0

\* C9: no sequence file for the marker (no reference directory, or no name
\* with a sequence-file extension that contains the marker id, letter case
\* ignored): a pileup launches no subprocess and leaves the stored results,
\* the session's tmpdir and the disk as they were.
NoReferenceFor(marker) ==
    \/ hg38 = None
    \/ ~\E f \in hg38[1] :
          /\ \E ext \in {EXT_FA, EXT_FASTA} : EndsWith(Lower(f), ext)
          /\ Contains(Lower(f), Lower(marker))

C9_ReferenceNotFoundAborts ==
    [][(last'.op = "pileup" /\ NoReferenceFor(last'.marker)) =>
          /\ last'.outcome = "reference_not_found"
          /\ last'.argv = None
          /\ session_state' = session_state
          /\ files' = files
          /\ dirs' = dirs]_vars

C9_Witness ==
    /\ last.op = "pileup" /\ last.outcome = "reference_not_found"
    /\ hg38 # None
    /\ HasResults

\* C10: a reset leaves neither results nor tmpdir in the session state and
\* removes nothing from disk; while no results are stored, no script run is
\* a pileup.
C10_ResetDropsSession ==
    [][/\ last'.op = "clear" =>
              /\ session_state'.results = None
              /\ session_state'.tmpdir = None
              /\ dirs' = dirs
              /\ files' = files
              /\ manifests' = manifests
       /\ ~HasResults => last'.op # "pileup"]_vars

C10_Witness ==
    /\ last.op = "clear"
    /\ dirs # {}
    /\ files # {}
    /\ ~HasResults

\* C11: a primary run whose list of saved input file paths is empty ends
\* with an input error and reaches no subprocess; every primary run that
\* reaches the subprocess has a non-empty list, and so has every manifest
\* written for the analyzer.
C11_NoSubprocessWithoutInput ==
    /\ (last.op = "run" /\ last.fastq_paths = << >>) =>
            /\ last.outcome \in {"input_error", "no_upload"}
            /\ last.argv = None
    /\ (last.op = "run" /\ last.argv # None) =>
            /\ last.fastq_paths # << >>
            /\ manifests[last.argv[4]].fastq_files # << >>
    /\ \A m \in DOMAIN manifests : manifests[m].fastq_files # << >>

C11_Witness ==
    /\ last.op = "run" /\ last.outcome = "input_error"
    /\ uploaded = << >>
    /\ session_state.tmpdir \in dirs
    /\ DOMAIN manifests # {}

\* C12: no two analyzer processes are alive at the same time in the same
\* workspace, and while a pileup process is alive the results of a primary
\* run are stored, the file it reads is one of their input files and no
\* run-marker process is alive.
C12_OneAnalyzerPerWorkspace ==
    /\ \A p, q \in running : p.cwd = q.cwd => p = q
    /\ \A p \in running : p.argv[2] = PILEUP =>
          /\ HasResults
          /\ p.argv[3] \in Range(Results.fastq_paths)
          /\ \A q \in running : q.argv[2] # RUN_MARKER

C12_Witness ==
    /\ \E p \in running : p.argv[2] = PILEUP /\ p.cwd = session_state.tmpdir
    /\ mkdtemp_count = 2
    /\ partial # {}

\* C13: for every non-empty filename (taken here without a directory part)
\* infer_stub_from_filename returns a non-empty stub.
C13_StubNeverEmpty ==
    (call.done /\ call.args[1] # << >> /\ ~Contains(call.args[1], <<"/">>)) =>
        call.ret # << >>

\* C14: infer_stub_from_filename returns the base name with at most one
\* recognized extension taken off its end (the first of .fastq.gz, .fq.gz,
\* .fastq, .fq that it ends with) and then, if an underscore is left in it,
\* cut before its last underscore; without an underscore it is returned as
\* stripped.
C14_StubDropsExtAndLastToken ==
    call.done =>
        LET base == basename(call.args[1])
            ends == {i \in 1..4 : EndsWith(base, <<EXT_FASTQ_GZ, EXT_FQ_GZ, EXT_FASTQ, EXT_FQ>>[i])}
            ext == IF ends = {} THEN << >>
                   ELSE <<EXT_FASTQ_GZ, EXT_FQ_GZ, EXT_FASTQ, EXT_FQ>>[
                            CHOOSE i \in ends : \A j \in ends : i <= j]
            stripped == SubSeq(base, 1, Len(base) - Len(ext))
            k == LastIndexOf(stripped, "_")
        IN  call.ret = IF k = 0 THEN stripped ELSE SubSeq(stripped, 1, k - 1)

C14_Witness ==
    /\ call.done
    /\ call.args[1] = <<"a", "_", ".", "f", "q", ".", "f", "a", "s", "t", "q">>
    /\ call.ret = <<"a">>

\* C17: parse_group_map_text returns exactly the stub-to-name pairs of the
\* well-formed lines of the text: a line that is blank, starts with #, has
\* no '=' or has an empty stub or name after trimming gives nothing; a line
\* is split at its first '='; of several lines with one stub the last one
\* gives the name; parsing the text again gives the same table.
LineStub(line) == Strip(SubSeq(Strip(line), 1, IndexOf(Strip(line), "=") - 1))
LineName(line) == Strip(SubSeq(Strip(line), IndexOf(Strip(line), "=") + 1, Len(Strip(line))))
WellFormed(line) ==
    /\ Strip(line) # << >>
    /\ Strip(line)[1] # "#"
    /\ \E i \in DOMAIN line : line[i] = "="
    /\ LineStub(line) # << >>
    /\ LineName(line) # << >>

C17_TableOfWellFormedLines ==
    call.done =>
        LET lines == SplitLines(call.args[1])
            good == {i \in DOMAIN lines : WellFormed(lines[i])}
        IN  /\ DOMAIN call.ret = {LineStub(lines[i]) : i \in good}
            /\ \A i \in good :
                  (\A j \in good : j > i => LineStub(lines[j]) # LineStub(lines[i])) =>
                      call.ret[LineStub(lines[i])] = LineName(lines[i])
            /\ parse_group_map_text(call.args[1]) = call.ret

C17_Witness ==
    /\ call.done
    /\ call.args[1] = <<"a", "=", "b", "\n", "a", "=", "=">>
    /\ call.ret = (<<"a">> :> <<"=">>)

\* C15: the group map of the config has exactly one entry per distinct stub
\* inferred from the input file paths and no other key; the name of an
\* entry is the override of its stub when the override table has one and
\* the stub itself otherwise; paths with one stub share one entry.
C15_GroupMapPerStub ==
    call.done =>
        LET fastq_paths == call.args[2]
            table == parse_group_map_text(call.args[5])
            group_map == call.ret.cfg.markers[call.args[1]].group_map
            stubs == {infer_stub_from_filename(fastq_paths[i]) : i \in DOMAIN fastq_paths}
        IN  /\ ~call.ret.raised
            /\ DOMAIN group_map = stubs
            /\ \A stub \in stubs :
                  group_map[stub] = IF stub \in DOMAIN table THEN table[stub] ELSE stub
            /\ \A i, j \in DOMAIN fastq_paths :
                  infer_stub_from_filename(fastq_paths[i]) =
                      infer_stub_from_filename(fastq_paths[j]) =>
                      Cardinality(DOMAIN group_map) < Len(fastq_paths) \/ i = j

C15_Witness ==
    /\ call.done
    /\ call.args[2] = <<<<"/", "d", "/", "a", "_", "1", ".", "f", "q">>,
                        <<"a", "_", "2", ".", "f", "q", ".", "g", "z">>>>
    /\ call.args[5] = MAP_TEXT
    /\ call.ret.cfg.markers[BAT25].group_map = (<<"a">> :> <<"X">>)

\* C16: the command of a primary run is the executable followed by exactly
\* run-marker, the marker id, the manifest path, then --run-tests iff test
\* mode is on, then --skip-variant-summary iff skip-summary mode is on, then
\* --threads N iff the thread count is greater than one; with both flags
\* off and one thread nothing follows the manifest path.
C16_PrimaryArgv ==
    call.done =>
        LET marker == call.args[1]
            manifest_path == call.args[2]
            run_tests == call.args[3]
            skip_variant_summary == call.args[4]
            threads == call.args[5]
            argv == call.ret
            opts == SubSeq(argv, 5, Len(argv))
            decimal == IF threads < 10 THEN <<Digits[threads + 1]>>
                       ELSE <<Digits[(threads \div 10) + 1], Digits[(threads % 10) + 1]>>
        IN  /\ SubSeq(argv, 1, 4) = <<MSIANALYZER, RUN_MARKER, marker, manifest_path>>
            /\ Len(opts) = (IF run_tests THEN 1 ELSE 0)
                            + (IF skip_variant_summary THEN 1 ELSE 0)
                            + (IF threads > 1 THEN 2 ELSE 0)
            /\ run_tests => opts[1] = OPT_RUN_TESTS
            /\ skip_variant_summary =>
                  opts[IF run_tests THEN 2 ELSE 1] = OPT_SKIP_VARIANT_SUMMARY
            /\ threads > 1 =>
                  SubSeq(opts, Len(opts) - 1, Len(opts)) = <<OPT_THREADS, decimal>>
            /\ (~run_tests /\ ~skip_variant_summary /\ threads = 1) =>
                  Tail(argv) = <<RUN_MARKER, marker, manifest_path>>

C16_Witness ==
    /\ call.done
    /\ call.args[5] = 12
    /\ Len(call.ret) = 8
    /\ call.ret[5] = OPT_RUN_TESTS
    /\ call.ret[8] = <<"1", "2">>

\* C18: the file a pileup command reads lies inside the workspace that is
\* the session's tmpdir and the working directory of the pileup process,
\* also after a primary run that was aborted in between.
C18_PileupInActiveWorkspace ==
    (last.op = "pileup" /\ last.argv # None) =>
        /\ last.cwd = session_state.tmpdir
        /\ IsUnder(last.argv[3], last.cwd)

C20_PileupUsesStoredMarker ==
    last.op = "pileup" =>
        /\ HasResults
        /\ last.marker = Results.marker
        /\ last.argv # None =>
              Contains(Lower(basename(last.argv[4])), Lower(Results.marker))
        /\ (last.outcome = "reference_not_found") = 
              (session_state.tmpdir \in dirs /\ NoReferenceFor(Results.marker))

C20_Witness ==
    /\ last.op = "pileup" /\ last.argv # None
    /\ HasResults
    /\ selected # Results.marker
    /\ selected \in DOMAIN MARKERS

\* C21: in every state of the session, stored results imply a tmpdir: the
\* results key is set only while the tmpdir key is set.
C21_ResultsImplyTmpdir ==
    HasResults => session_state.tmpdir # None

C21_Witness ==
    /\ HasResults
    /\ session_state.tmpdir # None
    /\ last.op = "run" /\ last.outcome = "exit"
    /\ \E d \in dirs : d # session_state.tmpdir /\ ~IsUnder(d, session_state.tmpdir)

=============================================================================
